---- MODULE Spec2Model ----
(***************************************************************************)
(* A model of crystals/atom.py: Element, Atom, the distance functions,     *)
(* is_element, Subshell and ElectronicStructure.                           *)
(*                                                                         *)
(* Python values are modelled as follows.                                  *)
(*  - A str is a sequence of one-character strings ("He" is <<"H","e">>),  *)
(*    so that str.title(), value[-1] and str.translate act on characters.  *)
(*  - An argument whose Python type matters (int, str, Element, Subshell)  *)
(*    is a record [t, n, s]: t names the type, n holds an int (or the      *)
(*    index of a Subshell member), s holds a str (or an Element's symbol). *)
(*  - A dict / OrderedDict is the sequence of its <<key, value>> items in  *)
(*    insertion order.                                                     *)
(*  - A raised exception is the name of its class; "none" means the call   *)
(*    returned.                                                            *)
(***************************************************************************)
EXTENDS Integers, Sequences, FiniteSets, TLC

VARIABLES
    es,        \* the items of the ElectronicStructure a client holds
    esCall,    \* the last ElectronicStructure call: its arguments and outcome
    rendered,  \* the last str(es)
    nops,      \* item assignments made on es
    elCall,    \* the last call that takes an element argument, and its outcome
    a,         \* an Atom a client holds
    b,         \* a second Atom
    t,         \* the Atom returned by a.transform
    atCall     \* the last Atom call: its arguments and outcome

esVars == <<es, esCall, rendered, nops>>

atVars == <<a, b, t, atCall>>

vars == <<es, esCall, rendered, nops, elCall, a, b, t, atCall>>

(***************************************************************************)
(* Python values                                                           *)
(***************************************************************************)
PyInt(i) == [t |-> "int", n |-> i, s |-> <<>>]
PyStr(str) == [t |-> "str", n |-> 0, s |-> str]
PyNone == [t |-> "None", n |-> 0, s |-> <<>>]

Min(x, y) == IF x <= y THEN x ELSE y

\* d[k] = v on a dict: an existing key keeps its place, a new key goes last.
DictSet(d, k, v) ==
    IF \E i \in 1..Len(d) : d[i][1] = k
    THEN [i \in 1..Len(d) |-> IF d[i][1] = k THEN <<k, v>> ELSE d[i]]
    ELSE Append(d, <<k, v>>)

DictHas(d, k) == \E i \in 1..Len(d) : d[i][1] = k

DictGet(d, k) == d[CHOOSE i \in 1..Len(d) : d[i][1] = k][2]

DictKeys(d) == [i \in 1..Len(d) |-> d[i][1]]

(***************************************************************************)
(* Subshell (atom.py 356-405)                                              *)
(***************************************************************************)
\* The members' values in declaration order; member i is Subshell(SubshellValues[i]).
SubshellValues ==
    << <<"1","s">>, <<"2","s">>, <<"2","p">>, <<"3","s">>, <<"3","p">>,
       <<"4","s">>, <<"3","d">>, <<"4","p">>, <<"5","s">>, <<"4","d">>,
       <<"5","p">>, <<"6","s">>, <<"4","f">>, <<"5","d">>, <<"6","p">>,
       <<"7","s">>, <<"5","f">>, <<"6","d">>, <<"7","p">> >>

NumSubshells == Len(SubshellValues)

PySubshell(i) == [t |-> "Subshell", n |-> i, s |-> <<>>]

\* Subshell(key): the member itself, or the member whose value is the string;
\* 0 stands for the ValueError Enum raises for anything else.
Subshell(key) ==
    IF key.t = "Subshell" THEN key.n
    ELSE IF key.t = "str" /\ \E i \in 1..NumSubshells : SubshellValues[i] = key.s
    THEN CHOOSE i \in 1..NumSubshells : SubshellValues[i] = key.s
    ELSE 0

\* maxima[shell.value[-1]]
maxima(letter) ==
    CASE letter = "s" -> 2
      [] letter = "p" -> 6
      [] letter = "d" -> 10
      [] letter = "f" -> 14

\* Subshell.maximum_electrons(shell), shell a member's index.
maximum_electrons(shell) ==
    LET value == SubshellValues[shell]
    IN  maxima(value[Len(value)])

(***************************************************************************)
(* str methods                                                             *)
(***************************************************************************)
Lowers ==
    <<"a","b","c","d","e","f","g","h","i","j","k","l","m","n","o","p","q","r","s","t","u","v","w","x","y","z">>

Uppers ==
    <<"A","B","C","D","E","F","G","H","I","J","K","L","M","N","O","P","Q","R","S","T","U","V","W","X","Y","Z">>

IsLower(c) == \E i \in 1..Len(Lowers) : Lowers[i] = c

IsUpper(c) == \E i \in 1..Len(Uppers) : Uppers[i] = c

IsCased(c) == IsLower(c) \/ IsUpper(c)

ToUpper(c) == IF IsLower(c) THEN Uppers[CHOOSE i \in 1..Len(Lowers) : Lowers[i] = c] ELSE c

ToLower(c) == IF IsUpper(c) THEN Lowers[CHOOSE i \in 1..Len(Uppers) : Uppers[i] = c] ELSE c

\* str.title(): a cased character is upper-cased when it starts a word (it
\* follows no character, or an uncased one) and lower-cased otherwise.
Title(str) ==
    [i \in 1..Len(str) |->
        IF i > 1 /\ IsCased(str[i - 1]) THEN ToLower(str[i]) ELSE ToUpper(str[i])]

(***************************************************************************)
(* atom_data: the periodic table (imported at atom.py 8-15)                *)
(***************************************************************************)
\* The symbols in order of atomic number.
chemical_symbols ==
    << <<"H">>, <<"H","e">>, <<"L","i">>, <<"B","e">>, <<"B">>, <<"C">>, <<"N">>, <<"O">>,
       <<"F">>, <<"N","e">>, <<"N","a">>, <<"M","g">>, <<"A","l">>, <<"S","i">>, <<"P">>, <<"S">>,
       <<"C","l">>, <<"A","r">>, <<"K">>, <<"C","a">>, <<"S","c">>, <<"T","i">>, <<"V">>, <<"C","r">>,
       <<"M","n">>, <<"F","e">>, <<"C","o">>, <<"N","i">>, <<"C","u">>, <<"Z","n">>, <<"G","a">>, <<"G","e">>,
       <<"A","s">>, <<"S","e">>, <<"B","r">>, <<"K","r">>, <<"R","b">>, <<"S","r">>, <<"Y">>, <<"Z","r">>,
       <<"N","b">>, <<"M","o">>, <<"T","c">>, <<"R","u">>, <<"R","h">>, <<"P","d">>, <<"A","g">>, <<"C","d">>,
       <<"I","n">>, <<"S","n">>, <<"S","b">>, <<"T","e">>, <<"I">>, <<"X","e">>, <<"C","s">>, <<"B","a">>,
       <<"L","a">>, <<"C","e">>, <<"P","r">>, <<"N","d">>, <<"P","m">>, <<"S","m">>, <<"E","u">>, <<"G","d">>,
       <<"T","b">>, <<"D","y">>, <<"H","o">>, <<"E","r">>, <<"T","m">>, <<"Y","b">>, <<"L","u">>, <<"H","f">>,
       <<"T","a">>, <<"W">>, <<"R","e">>, <<"O","s">>, <<"I","r">>, <<"P","t">>, <<"A","u">>, <<"H","g">>,
       <<"T","l">>, <<"P","b">>, <<"B","i">>, <<"P","o">>, <<"A","t">>, <<"R","n">>, <<"F","r">>, <<"R","a">>,
       <<"A","c">>, <<"T","h">>, <<"P","a">>, <<"U">>, <<"N","p">>, <<"P","u">>, <<"A","m">>, <<"C","m">>,
       <<"B","k">>, <<"C","f">>, <<"E","s">>, <<"F","m">>, <<"M","d">>, <<"N","o">>, <<"L","r">>, <<"R","f">>,
       <<"D","b">>, <<"S","g">>, <<"B","h">>, <<"H","s">>, <<"M","t">>, <<"D","s">>, <<"R","g">>, <<"C","n">>,
       <<"N","h">>, <<"F","l">>, <<"M","c">>, <<"L","v">>, <<"T","s">>, <<"O","g">> >>

\* The full names in order of atomic number.
element_names ==
    << <<"H","y","d","r","o","g","e","n">>, <<"H","e","l","i","u","m">>, <<"L","i","t","h","i","u","m">>,
       <<"B","e","r","y","l","l","i","u","m">>, <<"B","o","r","o","n">>, <<"C","a","r","b","o","n">>,
       <<"N","i","t","r","o","g","e","n">>, <<"O","x","y","g","e","n">>, <<"F","l","u","o","r","i","n","e">>,
       <<"N","e","o","n">>, <<"S","o","d","i","u","m">>, <<"M","a","g","n","e","s","i","u","m">>,
       <<"A","l","u","m","i","n","i","u","m">>, <<"S","i","l","i","c","o","n">>, <<"P","h","o","s","p","h","o","r","u","s">>,
       <<"S","u","l","f","u","r">>, <<"C","h","l","o","r","i","n","e">>, <<"A","r","g","o","n">>,
       <<"P","o","t","a","s","s","i","u","m">>, <<"C","a","l","c","i","u","m">>, <<"S","c","a","n","d","i","u","m">>,
       <<"T","i","t","a","n","i","u","m">>, <<"V","a","n","a","d","i","u","m">>, <<"C","h","r","o","m","i","u","m">>,
       <<"M","a","n","g","a","n","e","s","e">>, <<"I","r","o","n">>, <<"C","o","b","a","l","t">>,
       <<"N","i","c","k","e","l">>, <<"C","o","p","p","e","r">>, <<"Z","i","n","c">>,
       <<"G","a","l","l","i","u","m">>, <<"G","e","r","m","a","n","i","u","m">>, <<"A","r","s","e","n","i","c">>,
       <<"S","e","l","e","n","i","u","m">>, <<"B","r","o","m","i","n","e">>, <<"K","r","y","p","t","o","n">>,
       <<"R","u","b","i","d","i","u","m">>, <<"S","t","r","o","n","t","i","u","m">>, <<"Y","t","t","r","i","u","m">>,
       <<"Z","i","r","c","o","n","i","u","m">>, <<"N","i","o","b","i","u","m">>, <<"M","o","l","y","b","d","e","n","u","m">>,
       <<"T","e","c","h","n","e","t","i","u","m">>, <<"R","u","t","h","e","n","i","u","m">>, <<"R","h","o","d","i","u","m">>,
       <<"P","a","l","l","a","d","i","u","m">>, <<"S","i","l","v","e","r">>, <<"C","a","d","m","i","u","m">>,
       <<"I","n","d","i","u","m">>, <<"T","i","n">>, <<"A","n","t","i","m","o","n","y">>,
       <<"T","e","l","l","u","r","i","u","m">>, <<"I","o","d","i","n","e">>, <<"X","e","n","o","n">>,
       <<"C","e","s","i","u","m">>, <<"B","a","r","i","u","m">>, <<"L","a","n","t","h","a","n","u","m">>,
       <<"C","e","r","i","u","m">>, <<"P","r","a","s","e","o","d","y","m","i","u","m">>, <<"N","e","o","d","y","m","i","u","m">>,
       <<"P","r","o","m","e","t","h","i","u","m">>, <<"S","a","m","a","r","i","u","m">>, <<"E","u","r","o","p","i","u","m">>,
       <<"G","a","d","o","l","i","n","i","u","m">>, <<"T","e","r","b","i","u","m">>, <<"D","y","s","p","r","o","s","i","u","m">>,
       <<"H","o","l","m","i","u","m">>, <<"E","r","b","i","u","m">>, <<"T","h","u","l","i","u","m">>,
       <<"Y","t","t","e","r","b","i","u","m">>, <<"L","u","t","e","t","i","u","m">>, <<"H","a","f","n","i","u","m">>,
       <<"T","a","n","t","a","l","u","m">>, <<"T","u","n","g","s","t","e","n">>, <<"R","h","e","n","i","u","m">>,
       <<"O","s","m","i","u","m">>, <<"I","r","i","d","i","u","m">>, <<"P","l","a","t","i","n","u","m">>,
       <<"G","o","l","d">>, <<"M","e","r","c","u","r","y">>, <<"T","h","a","l","l","i","u","m">>,
       <<"L","e","a","d">>, <<"B","i","s","m","u","t","h">>, <<"P","o","l","o","n","i","u","m">>,
       <<"A","s","t","a","t","i","n","e">>, <<"R","a","d","o","n">>, <<"F","r","a","n","c","i","u","m">>,
       <<"R","a","d","i","u","m">>, <<"A","c","t","i","n","i","u","m">>, <<"T","h","o","r","i","u","m">>,
       <<"P","r","o","t","a","c","t","i","n","i","u","m">>, <<"U","r","a","n","i","u","m">>, <<"N","e","p","t","u","n","i","u","m">>,
       <<"P","l","u","t","o","n","i","u","m">>, <<"A","m","e","r","i","c","i","u","m">>, <<"C","u","r","i","u","m">>,
       <<"B","e","r","k","e","l","i","u","m">>, <<"C","a","l","i","f","o","r","n","i","u","m">>, <<"E","i","n","s","t","e","i","n","i","u","m">>,
       <<"F","e","r","m","i","u","m">>, <<"M","e","n","d","e","l","e","v","i","u","m">>, <<"N","o","b","e","l","i","u","m">>,
       <<"L","a","w","r","e","n","c","i","u","m">>, <<"R","u","t","h","e","r","f","o","r","d","i","u","m">>, <<"D","u","b","n","i","u","m">>,
       <<"S","e","a","b","o","r","g","i","u","m">>, <<"B","o","h","r","i","u","m">>, <<"H","a","s","s","i","u","m">>,
       <<"M","e","i","t","n","e","r","i","u","m">>, <<"D","a","r","m","s","t","a","d","t","i","u","m">>, <<"R","o","e","n","t","g","e","n","i","u","m">>,
       <<"C","o","p","e","r","n","i","c","i","u","m">>, <<"N","i","h","o","n","i","u","m">>, <<"F","l","e","r","o","v","i","u","m">>,
       <<"M","o","s","c","o","v","i","u","m">>, <<"L","i","v","e","r","m","o","r","i","u","m">>, <<"T","e","n","n","e","s","s","i","n","e">>,
       <<"O","g","a","n","e","s","s","o","n">> >>

\* NUM_TO_ELEM: a dict keyed by the atomic numbers 1..118.
NUM_TO_ELEM_has(num) == num \in 1..Len(chemical_symbols)

NUM_TO_ELEM(num) == chemical_symbols[num]

valid_symbols == {chemical_symbols[i] : i \in 1..Len(chemical_symbols)}

ELEM_TO_NUM(element) == CHOOSE i \in 1..Len(chemical_symbols) : chemical_symbols[i] = element

ELEM_TO_NAME(element) == element_names[ELEM_TO_NUM(element)]

(***************************************************************************)
(* Element (atom.py 19-77)                                                 *)
(***************************************************************************)
PyElement(symbol) == [t |-> "Element", n |-> 0, s |-> symbol]

\* Element.__repr__: f"< {self.element_full} >"
Element_repr(symbol) == <<"<", " ">> \o ELEM_TO_NAME(symbol) \o <<" ", ">">>

\* str(element) for the argument types the constructor is handed: a str is
\* itself, an Element has no __str__ and falls back on __repr__.
str_of(arg) == IF arg.t = "Element" THEN Element_repr(arg.s) ELSE arg.s

\* Element.__init__(element): exc is the exception raised ("none": the object
\* is built and element is its normalized symbol).
Element(arg) ==
    IF arg.t = "int" /\ ~NUM_TO_ELEM_has(arg.n)
    THEN [exc |-> "KeyError", element |-> <<>>]
    ELSE LET looked == IF arg.t = "int" THEN PyStr(NUM_TO_ELEM(arg.n)) ELSE arg
             element == Title(str_of(looked))
         IN  IF element \notin valid_symbols
             THEN [exc |-> "ValueError", element |-> <<>>]
             ELSE [exc |-> "none", element |-> element]

\* Element.atomic_number
atomic_number(symbol) == ELEM_TO_NUM(symbol)

\* is_element(element)(atm): exc is raised by is_element itself; result is
\* what the returned function answers for an atom of symbol atm.
is_element(arg, atm) ==
    LET made == IF arg.t = "Element" THEN [exc |-> "none", element |-> arg.s]
                ELSE Element(arg)
    IN  IF made.exc # "none"
        THEN [exc |-> made.exc, result |-> FALSE]
        ELSE [exc |-> "none",
              result |-> atomic_number(atm) = atomic_number(made.element)]

(***************************************************************************)
(* ElectronicStructure (atom.py 408-508)                                   *)
(***************************************************************************)
Digits == <<"0","1","2","3","4","5","6","7","8","9">>

\* superscript_map: "^d" stands for the one superscript character of digit d
\* (U+2070, U+00B9, U+00B2, U+00B3, U+2074 .. U+2079).
Superscripts == <<"^0","^1","^2","^3","^4","^5","^6","^7","^8","^9">>

\* str.translate(superscript_trans) on one character
superscript_trans(c) ==
    IF \E i \in 1..Len(Digits) : Digits[i] = c
    THEN Superscripts[CHOOSE i \in 1..Len(Digits) : Digits[i] = c]
    ELSE c

RECURSIVE Decimal(_)
Decimal(n) == IF n < 10 THEN <<Digits[n + 1]>> ELSE Append(Decimal(n \div 10), Digits[(n % 10) + 1])

\* f"{occ}" for an int
Format(occ) == IF occ < 0 THEN <<"-">> \o Decimal(-occ) ELSE Decimal(occ)

\* ElectronicStructure.__setitem__(key, value) on a structure whose items are
\* self: the items afterwards and the exception raised.  The method checks
\* the capacity and returns; it makes no call that writes to the mapping.
ES_setitem(self, key, value) ==
    LET shell == Subshell(key)
    IN  IF shell = 0 THEN [self |-> self, exc |-> "ValueError"]
        ELSE IF value > maximum_electrons(shell)
        THEN [self |-> self, exc |-> "ValueError"]
        ELSE [self |-> self, exc |-> "none"]

\* {Subshell(k): v for k, v in shells.items()}
RECURSIVE NormalizeKeys(_, _, _)
NormalizeKeys(shells, i, acc) ==
    IF i > Len(shells) THEN [exc |-> "none", d |-> acc]
    ELSE IF Subshell(shells[i][1]) = 0 THEN [exc |-> "ValueError", d |-> acc]
    ELSE NormalizeKeys(shells, i + 1, DictSet(acc, Subshell(shells[i][1]), shells[i][2]))

\* for shell in Subshell: if shell not in shells: continue; self[shell] = shells[shell]
RECURSIVE InsertInOrder(_, _, _)
InsertInOrder(self, shells, shell) ==
    IF shell > NumSubshells THEN [self |-> self, exc |-> "none"]
    ELSE IF ~DictHas(shells, shell) THEN InsertInOrder(self, shells, shell + 1)
    ELSE LET set == ES_setitem(self, PySubshell(shell), DictGet(shells, shell))
         IN  IF set.exc # "none" THEN set
             ELSE InsertInOrder(set.self, shells, shell + 1)

\* ElectronicStructure.__init__(shells), shells the items of the dict passed.
ES_init(shells) ==
    LET norm == NormalizeKeys(shells, 1, <<>>)
    IN  IF norm.exc # "none" THEN [self |-> <<>>, exc |-> norm.exc]
        ELSE InsertInOrder(<<>>, norm.d, 1)

\* ElectronicStructure.__str__
RECURSIVE ES_str(_)
ES_str(self) ==
    IF self = <<>> THEN <<>>
    ELSE SubshellValues[Head(self)[1]]
         \o [i \in 1..Len(Format(Head(self)[2])) |-> superscript_trans(Format(Head(self)[2])[i])]
         \o ES_str(Tail(self))

\* The loop of ground_state: structure is the local dict being filled.
RECURSIVE FillShells(_, _, _)
FillShells(shell, num_elec, structure) ==
    IF shell > NumSubshells THEN structure
    ELSE LET shell_elec == Min(maximum_electrons(shell), num_elec)
             filled == DictSet(structure, PySubshell(shell), shell_elec)
         IN  IF num_elec - shell_elec = 0 THEN filled
             ELSE FillShells(shell + 1, num_elec - shell_elec, filled)

\* ElectronicStructure.ground_state(element)
ground_state(arg) ==
    LET element == Element(arg)
    IN  IF element.exc # "none" THEN [self |-> <<>>, exc |-> element.exc]
        ELSE ES_init(FillShells(1, atomic_number(element.element), <<>>))

(***************************************************************************)
(* Numbers and arrays                                                      *)
(*                                                                         *)
(* A coordinate or displacement component is an integer count of 1e-4, so  *)
(* 0.0004 is 4 and the tolerance 1e-3 is 10; a vector is a triple and a    *)
(* matrix a sequence of rows.  An optional argument is <<>> for None and   *)
(* <<v>> for the value v.                                                  *)
(***************************************************************************)
ATol == 10            \* atol=1e-3 of np.allclose
RTolInverse == 100000 \* 1 / rtol, rtol=1e-5 being np.allclose's default
RoundUnit == 10       \* np.round(x, 3) rounds to multiples of 1e-3

Abs(x) == IF x < 0 THEN -x ELSE x

None == <<>>

Some(v) == <<v>>

\* np.allclose(x, y, atol=1e-3): |x - y| <= atol + rtol * |y| in every component
allclose(x, y) ==
    \A i \in 1..3 : RTolInverse * Abs(x[i] - y[i]) <= RTolInverse * ATol + Abs(y[i])

\* np.round(x, 3) of one component: to the nearest multiple of 1e-3, a tie
\* going to the even multiple (\div rounds down, % is non-negative).
round3(x) ==
    LET q == x \div RoundUnit
        r == x % RoundUnit
    IN  IF 2 * r < RoundUnit THEN q * RoundUnit
        ELSE IF 2 * r > RoundUnit THEN (q + 1) * RoundUnit
        ELSE IF q % 2 = 0 THEN q * RoundUnit ELSE (q + 1) * RoundUnit

\* tuple(np.round(v, 3))
round_vector(v) == <<round3(v[1]), round3(v[2]), round3(v[3])>>

\* x - y on vectors
Minus(x, y) == <<x[1] - y[1], x[2] - y[2], x[3] - y[3]>>

\* np.linalg.norm(v) is the square root of the sum of squares; the model
\* keeps the radicand, which determines the root and is determined by it.
norm(v) == v[1] * v[1] + v[2] * v[2] + v[3] * v[3]

eye3 == << <<1, 0, 0>>, <<0, 1, 0>>, <<0, 0, 1>> >>

(***************************************************************************)
(* affine.transform and affine.change_of_basis (imported at atom.py 7)     *)
(***************************************************************************)
\* transform(matrix, vector): a 3x3 matrix multiplies the vector; a 4x4
\* matrix multiplies the vector padded with a trailing 1 and the first three
\* components are returned.
affine_transform(matrix, vector) ==
    IF Len(matrix) = 3
    THEN [i \in 1..3 |->
            matrix[i][1] * vector[1] + matrix[i][2] * vector[2] + matrix[i][3] * vector[3]]
    ELSE [i \in 1..3 |->
            matrix[i][1] * vector[1] + matrix[i][2] * vector[2] + matrix[i][3] * vector[3]
                + matrix[i][4]]

\* change_of_basis(basis_from, np.eye(3)): the matrix taking coordinates in
\* basis_from to the standard basis has the vectors of basis_from as columns.
change_of_basis_to_standard(basis_from) ==
    [i \in 1..3 |-> [j \in 1..3 |-> basis_from[j][i]]]

\* real_coords(frac_coords, lattice_vectors)
real_coords(frac, lattice_vectors) ==
    affine_transform(change_of_basis_to_standard(lattice_vectors), frac)

(***************************************************************************)
(* Lattice (imported at atom.py 16)                                        *)
(***************************************************************************)
\* Lattice(vectors): a value compared by its lattice vectors, true in a
\* boolean context like any object that defines neither __bool__ nor __len__.
Lattice(vectors) == [lattice_vectors |-> vectors]

Lattice_eq(l1, l2) == l1.lattice_vectors = l2.lattice_vectors

\* ELEM_TO_MAGMOM on the first elements: the ground-state magnetic moments
\* of H .. Ne.
ELEM_TO_MAGMOM(element) ==
    <<1, 0, 1, 0, 1, 2, 3, 2, 1, 0>>[ELEM_TO_NUM(element)]

(***************************************************************************)
(* Atom (atom.py 80-234)                                                   *)
(***************************************************************************)
DefaultOccupancy == 10   \* occupancy=1.0, in tenths

\* Element.magnetic_moment_ground
magnetic_moment_ground(element) == ELEM_TO_MAGMOM(element)

NoAtom ==
    [cls |-> "none", element |-> <<>>, coords_fractional |-> <<0, 0, 0>>,
     lattice |-> Lattice(eye3), displacement |-> <<0, 0, 0>>, magmom |-> 0,
     occupancy |-> 0, tag |-> None]

\* magmom or self.magnetic_moment_ground: None and 0 are both false
magmom_or_ground(magmom, element) ==
    IF magmom # None /\ magmom[1] # 0 THEN magmom[1] ELSE magnetic_moment_ground(element)

\* cls(element, coords, lattice, displacement, magmom, occupancy, tag), cls
\* being Atom or a subclass that inherits __init__.
Atom_init(cls, element, coords, lattice, displacement, magmom, occupancy, tag) ==
    LET base == Element(element)
    IN  IF base.exc # "none" THEN [exc |-> base.exc, atom |-> NoAtom]
        ELSE [exc |-> "none",
              atom |-> [cls |-> cls,
                        element |-> base.element,
                        coords_fractional |-> coords,
                        lattice |-> IF lattice # None THEN lattice[1] ELSE Lattice(eye3),
                        displacement |-> IF displacement # None THEN displacement[1]
                                         ELSE <<0, 0, 0>>,
                        magmom |-> magmom_or_ground(magmom, base.element),
                        occupancy |-> occupancy,
                        tag |-> tag]]

\* Element.__eq__
Element_eq(self, other) == self.element = other.element

\* Element.__hash__: hash(self.atomic_number), the hash of an int being the int
Element_hash(self) == atomic_number(self.element)

\* Atom.__eq__(other), other an Atom
Atom_eq(self, other) ==
    /\ Element_eq(self, other)
    /\ self.magmom = other.magmom
    /\ allclose(self.coords_fractional, other.coords_fractional)
    /\ Lattice_eq(self.lattice, other.lattice)
    /\ allclose(self.displacement, other.displacement)

\* Atom.__hash__: the tuple that is hashed.  Equal tuples hash equal and the
\* hashes of different tuples are taken to differ.
Atom_hash(self) ==
    <<Element_hash(self), self.magmom, round_vector(self.coords_fractional),
      self.lattice, round_vector(self.displacement)>>

\* Atom.coords_cartesian
coords_cartesian(self) == real_coords(self.coords_fractional, self.lattice.lattice_vectors)

\* for matrix in matrices: coords_fractional = transform(matrix, coords_fractional)
RECURSIVE ApplyMatrices(_, _)
ApplyMatrices(matrices, coords) ==
    IF matrices = <<>> THEN coords
    ELSE ApplyMatrices(Tail(matrices), affine_transform(Head(matrices), coords))

\* Atom.transform without the copy: the loop writes into the receiver's array.
Atom_transform_in_place(self, matrices) ==
    [self |-> [self EXCEPT !.coords_fractional = ApplyMatrices(matrices, self.coords_fractional)],
     ret |-> Atom_init(self.cls, PyStr(self.element),
                       ApplyMatrices(matrices, self.coords_fractional),
                       Some(self.lattice), Some(self.displacement), Some(self.magmom),
                       self.occupancy, None).atom]

\* Atom.transform(*matrices): the receiver afterwards and the atom returned.
\* The loop works on a copy of the coordinates; the constructor is called
\* with the element symbol and without a tag.
Atom_transform(self, matrices) ==
    [self |-> self,
     ret |-> Atom_init(self.cls, PyStr(self.element),
                       ApplyMatrices(matrices, self.coords_fractional),
                       Some(self.lattice), Some(self.displacement), Some(self.magmom),
                       self.occupancy, None).atom]

\* distance_fractional(atm1, atm2): steps lists the statements executed.
distance_fractional(atm1, atm2) ==
    IF ~Lattice_eq(atm1.lattice, atm2.lattice)
    THEN [exc |-> "RuntimeError", steps |-> <<"compare lattices">>, value |-> 0]
    ELSE [exc |-> "none",
          steps |-> <<"compare lattices", "subtract", "norm">>,
          value |-> norm(Minus(atm1.coords_fractional, atm2.coords_fractional))]

\* distance_cartesian without the lattice check
distance_cartesian_unchecked(atm1, atm2) ==
    [exc |-> "none",
     steps |-> <<"convert", "subtract", "norm">>,
     value |-> norm(Minus(coords_cartesian(atm1), coords_cartesian(atm2)))]

\* distance_cartesian(atm1, atm2)
distance_cartesian(atm1, atm2) ==
    IF ~Lattice_eq(atm1.lattice, atm2.lattice)
    THEN [exc |-> "RuntimeError", steps |-> <<"compare lattices">>, value |-> 0]
    ELSE [exc |-> "none",
          steps |-> <<"compare lattices", "convert", "subtract", "norm">>,
          value |-> norm(Minus(coords_cartesian(atm1), coords_cartesian(atm2)))]

(***************************************************************************)
(* Inputs                                                                  *)
(***************************************************************************)
MaxValue == 15       \* occupancies offered: -1..MaxValue
MaxEntries == 2      \* items of the dict handed to the constructor
MaxInitShell == 3    \* the constructor's dict draws its keys from the first shells
MaxInitValue == 7    \* and its occupancies from -1..MaxInitValue
MaxOps == 2          \* item assignments after construction
FarNumber == 500     \* an atomic number far outside the table

Values == -1..MaxValue

BadLabel == <<"9","z">>

KeysOf(shells) ==
    {PySubshell(i) : i \in shells} \cup {PyStr(SubshellValues[i]) : i \in shells}
        \cup {PyStr(BadLabel)}

Keys == KeysOf(1..NumSubshells)

InitKeys == KeysOf(1..Min(MaxInitShell, NumSubshells))

\* dicts of at most MaxEntries items, as item sequences with distinct keys
Mappings ==
    {m \in UNION {[1..k -> InitKeys \X (-1..MaxInitValue)] : k \in 0..MaxEntries} :
        \A i, j \in 1..Len(m) : i # j => m[i][1] # m[j][1]}

\* every way of casing the letters of a string
CaseVariants(str) ==
    {[i \in 1..Len(str) |-> IF i \in up THEN ToUpper(str[i]) ELSE ToLower(str[i])] :
        up \in SUBSET (1..Len(str))}

IntArgs == {PyInt(i) : i \in (-1..(Len(chemical_symbols) + 1)) \cup {FarNumber}}

ElementInstances == {PyElement(sym) : sym \in valid_symbols}

\* strings that are no symbol in any casing
BadSymbols == {<<>>, <<"X","x">>, <<"H","e","e">>, <<"H"," ">>, <<"1">>}

StrArgs == {PyStr(str) : str \in (UNION {CaseVariants(sym) : sym \in valid_symbols}) \cup BadSymbols}

MaxAtomZ == 2        \* atoms are of the first MaxAtomZ elements
MaxMagmom == 2       \* magnetic moments offered: None and 0..MaxMagmom
MaxMatrices == 2     \* matrices handed to one transform call

AtomSymbols == {chemical_symbols[i] : i \in 1..MaxAtomZ}

AtomElementArgs == {PyStr(sym) : sym \in AtomSymbols}

\* fractional coordinates around the rounding boundary 0.0005
CoordVals == {0, 4, 6}

CoordSet == {<<x, y, 0>> : x, y \in CoordVals}

\* a lattice that is not the default one
Oblique == Lattice(<< <<2, 0, 0>>, <<1, 2, 0>>, <<0, 0, 3>> >>)

LatticeArgs == {None, Some(Lattice(eye3)), Some(Oblique)}

DisplacementArgs == {None, Some(<<6, 0, 0>>)}

MagmomArgs == {None} \cup {Some(m) : m \in 0..MaxMagmom}

\* class, occupancy (in tenths) and tag of the atoms built; SubAtom is a
\* subclass of Atom that inherits its methods
Variants == {<<"Atom", DefaultOccupancy, None>>, <<"SubAtom", 5, Some(7)>>}

\* a rotation by a quarter turn about z, the inversion, a translation and a
\* screw operation (4x4, translations in units of 1e-4)
RotZ == << <<0, -1, 0>>, <<1, 0, 0>>, <<0, 0, 1>> >>

Inversion == << <<-1, 0, 0>>, <<0, -1, 0>>, <<0, 0, -1>> >>

Translation == << <<1, 0, 0, 5>>, <<0, 1, 0, 0>>, <<0, 0, 1, 0>>, <<0, 0, 0, 1>> >>

Screw == << <<0, -1, 0, 0>>, <<1, 0, 0, 0>>, <<0, 0, 1, 5>>, <<0, 0, 0, 1>> >>

Matrices == {eye3, RotZ, Inversion, Translation, Screw}

MatrixLists == UNION {[1..k -> Matrices] : k \in 0..MaxMatrices}

(***************************************************************************)
(* The ElectronicStructure a client holds                                  *)
(***************************************************************************)
NoCall ==
    [op |-> "none", key |-> PyNone, value |-> 0, shells |-> <<>>, arg |-> PyNone,
     before |-> <<>>, exc |-> "none"]

NoStructure == [exists |-> FALSE, items |-> <<>>]

NoElCall ==
    [op |-> "none", arg |-> PyNone, atm |-> <<>>, exc |-> "none", element |-> <<>>,
     items |-> <<>>, result |-> FALSE, number |-> 0]

NoAtCall ==
    [op |-> "none", element |-> PyNone, magmom |-> None, recv |-> NoAtom,
     matrices |-> <<>>, exc |-> "none", eq |-> FALSE, hash_a |-> <<>>, hash_b |-> <<>>,
     ab |-> [exc |-> "none", steps |-> <<>>, value |-> 0],
     ba |-> [exc |-> "none", steps |-> <<>>, value |-> 0]]

InitES ==
    /\ es = NoStructure
    /\ esCall = NoCall
    /\ rendered = <<>>
    /\ nops = 0
    /\ elCall = NoElCall
    /\ a = NoAtom /\ b = NoAtom /\ t = NoAtom
    /\ atCall = NoAtCall

\* es = ElectronicStructure(shells); a constructor that raises binds nothing.
ESNew(shells) ==
    /\ esCall.op = "none"
    /\ LET made == ES_init(shells)
       IN  /\ es' = IF made.exc = "none" THEN [exists |-> TRUE, items |-> made.self] ELSE es
           /\ esCall' = [NoCall EXCEPT !.op = "init", !.shells = shells, !.exc = made.exc]
    /\ UNCHANGED <<rendered, nops, elCall, atVars>>

\* es = ElectronicStructure.ground_state(arg)
ESGroundState(arg) ==
    /\ esCall.op = "none"
    /\ LET made == ground_state(arg)
       IN  /\ es' = IF made.exc = "none" THEN [exists |-> TRUE, items |-> made.self] ELSE es
           /\ esCall' = [NoCall EXCEPT !.op = "ground_state", !.arg = arg, !.exc = made.exc]
    /\ UNCHANGED <<rendered, nops, elCall, atVars>>

\* es[key] = value
ESSetItem(key, value) ==
    /\ es.exists
    /\ nops < MaxOps
    /\ LET set == ES_setitem(es.items, key, value)
       IN  /\ es' = [es EXCEPT !.items = set.self]
           /\ esCall' = [NoCall EXCEPT !.op = "setitem", !.key = key, !.value = value,
                                       !.before = es.items, !.exc = set.exc]
    /\ nops' = nops + 1
    /\ UNCHANGED <<rendered, elCall, atVars>>

\* rendered = str(es)
ESStr ==
    /\ es.exists
    /\ rendered' = ES_str(es.items)
    /\ esCall' = [NoCall EXCEPT !.op = "str"]
    /\ UNCHANGED <<es, nops, elCall, atVars>>

NextES ==
    \/ \E shells \in Mappings : ESNew(shells)
    \/ \E arg \in IntArgs \cup ElementInstances : ESGroundState(arg)
    \/ \E key \in Keys, value \in Values : ESSetItem(key, value)
    \/ ESStr

SpecES == InitES /\ [][NextES]_vars

(***************************************************************************)
(* Claims about ElectronicStructure                                        *)
(***************************************************************************)
\* The dict the constructor was handed, with its keys normalized.
GivenShells == NormalizeKeys(esCall.shells, 1, <<>>)

InRange(shell, value) == 0 <= value /\ value <= maximum_electrons(shell)

Holds(items, shell, value) == DictHas(items, shell) /\ DictGet(items, shell) = value

\* C1: setting the occupancy of a subshell to a value within 0..capacity, by
\* item assignment or through the constructor's dict, stores it: right after
\* the call the subshell is present and reading it gives that value.
C1_AssignedValueIsStored ==
    /\ (/\ esCall.op = "setitem"
        /\ Subshell(esCall.key) # 0
        /\ InRange(Subshell(esCall.key), esCall.value))
       => Holds(es.items, Subshell(esCall.key), esCall.value)
    /\ (/\ esCall.op = "init"
        /\ GivenShells.exc = "none"
        /\ \A i \in 1..Len(GivenShells.d) : InRange(GivenShells.d[i][1], GivenShells.d[i][2]))
       => /\ es.exists
          /\ \A i \in 1..Len(GivenShells.d) :
                Holds(es.items, GivenShells.d[i][1], GivenShells.d[i][2])

RECURSIVE SumOccupancies(_)
SumOccupancies(items) ==
    IF items = <<>> THEN 0 ELSE Head(items)[2] + SumOccupancies(Tail(items))

Neon == <<"1","s","^2","2","s","^2","2","p","^6">>

\* C2: ground_state(n), n in 1..118, fills the subshells in Madelung order:
\* every shell before the last one present holds its capacity, the last holds
\* a positive remainder within its capacity, no later shell is present, the
\* occupancies sum to n, and for n = 10 the structure renders as 1s2 2s2 2p6
\* (in superscripts).
C2_GroundStateFillsInMadelungOrder ==
    (esCall.op = "ground_state" /\ esCall.arg.t = "int" /\ esCall.arg.n \in 1..Len(chemical_symbols))
    => /\ esCall.exc = "none"
       /\ es.exists
       /\ Len(es.items) \in 1..NumSubshells
       /\ \A i \in 1..Len(es.items) :
            /\ es.items[i][1] = i
            /\ i < Len(es.items) => es.items[i][2] = maximum_electrons(i)
            /\ i = Len(es.items) => es.items[i][2] \in 1..maximum_electrons(i)
       /\ SumOccupancies(es.items) = esCall.arg.n
       /\ esCall.arg.n = 10 => ES_str(es.items) = Neon

\* C3: an occupancy that is negative or above the capacity is refused with
\* ValueError, by item assignment and by the constructor, and leaves the
\* stored occupancies as they were; every stored occupancy is within
\* 0..capacity of its shell.
C3_InvalidPopulationIsRefused ==
    /\ (/\ esCall.op = "setitem"
        /\ Subshell(esCall.key) # 0
        /\ ~InRange(Subshell(esCall.key), esCall.value))
       => (esCall.exc = "ValueError" /\ es.items = esCall.before)
    /\ (/\ esCall.op = "init"
        /\ GivenShells.exc = "none"
        /\ \E i \in 1..Len(GivenShells.d) : ~InRange(GivenShells.d[i][1], GivenShells.d[i][2]))
       => (esCall.exc = "ValueError" /\ ~es.exists)
    /\ \A i \in 1..Len(es.items) : InRange(es.items[i][1], es.items[i][2])

\* The shells of a set in declaration order.
RECURSIVE InDeclarationOrder(_, _)
InDeclarationOrder(shells, from) ==
    IF from > NumSubshells THEN <<>>
    ELSE (IF from \in shells THEN <<from>> ELSE <<>>) \o InDeclarationOrder(shells, from + 1)

\* C5: iterating a structure built from a dict (keys in any order, as labels
\* or members) yields exactly the shells the dict supplied, each once, in
\* declaration order; after a further successful assignment the assigned
\* shell is among the shells iterated and the order is still the declaration
\* order.
C5_IterationIsCanonical ==
    /\ (esCall.op = "init" /\ esCall.exc = "none")
       => DictKeys(es.items)
            = InDeclarationOrder({GivenShells.d[i][1] : i \in 1..Len(GivenShells.d)}, 1)
    /\ (esCall.op = "setitem" /\ esCall.exc = "none")
       => \E i \in 1..Len(es.items) : es.items[i][1] = Subshell(esCall.key)
    /\ \A i, j \in 1..Len(es.items) : i < j => es.items[i][1] < es.items[j][1]

(***************************************************************************)
(* Calls that take an element argument: each behaviour makes one call      *)
(***************************************************************************)
InitElem ==
    /\ es = NoStructure /\ esCall = NoCall /\ rendered = <<>> /\ nops = 0
    /\ elCall = NoElCall
    /\ a = NoAtom /\ b = NoAtom /\ t = NoAtom
    /\ atCall = NoAtCall

\* Element(arg)
ElNew(arg) ==
    /\ elCall.op = "none"
    /\ LET made == Element(arg)
       IN  elCall' = [NoElCall EXCEPT !.op = "Element", !.arg = arg, !.exc = made.exc,
                                      !.element = made.element]
    /\ UNCHANGED <<esVars, atVars>>

\* ElectronicStructure.ground_state(arg)
ElGroundState(arg) ==
    /\ elCall.op = "none"
    /\ LET made == ground_state(arg)
       IN  elCall' = [NoElCall EXCEPT !.op = "ground_state", !.arg = arg, !.exc = made.exc,
                                      !.items = made.self]
    /\ UNCHANGED <<esVars, atVars>>

\* is_element(arg)(atm), atm an atom of the given symbol
ElIsElement(arg, atm) ==
    /\ elCall.op = "none"
    /\ LET made == is_element(arg, atm)
       IN  elCall' = [NoElCall EXCEPT !.op = "is_element", !.arg = arg, !.atm = atm,
                                      !.exc = made.exc, !.result = made.result]
    /\ UNCHANGED <<esVars, atVars>>

\* Atom(arg, (0, 0, 0)).atomic_number
ElAtom(arg) ==
    /\ elCall.op = "none"
    /\ LET made == Atom_init("Atom", arg, <<0, 0, 0>>, None, None, None, DefaultOccupancy, None)
       IN  elCall' = [NoElCall EXCEPT !.op = "Atom", !.arg = arg, !.exc = made.exc,
                                      !.element = made.atom.element,
                                      !.number = IF made.exc = "none"
                                                 THEN atomic_number(made.atom.element) ELSE 0]
    /\ UNCHANGED <<esVars, atVars>>

ElementArgs == IntArgs \cup StrArgs \cup ElementInstances

NextElem ==
    \/ \E arg \in ElementArgs : ElNew(arg)
    \/ \E arg \in ElementArgs : ElGroundState(arg)
    \/ \E arg \in ElementArgs, atm \in AtomSymbols : ElIsElement(arg, atm)
    \/ \E arg \in {PyInt(i) : i \in (-1..MaxAtomZ) \cup {FarNumber}} \cup AtomElementArgs
                    \cup {PyElement(sym) : sym \in AtomSymbols} :
          ElAtom(arg)

SpecElem == InitElem /\ [][NextElem]_vars

(***************************************************************************)
(* Atoms a client holds.  Under SpecTransform it builds a and transforms   *)
(* it; under SpecPair it builds a and b and compares and measures them.    *)
(***************************************************************************)
InitAtom ==
    /\ es = NoStructure /\ esCall = NoCall /\ rendered = <<>> /\ nops = 0
    /\ elCall = NoElCall
    /\ a = NoAtom /\ b = NoAtom /\ t = NoAtom
    /\ atCall = NoAtCall

\* a = cls(element, coords, lattice, displacement, magmom, occupancy, tag)
NewA(variant, element, coords, lattice, displacement, magmom) ==
    /\ a = NoAtom
    /\ atCall.op = "none"
    /\ LET made == Atom_init(variant[1], element, coords, lattice, displacement, magmom,
                             variant[2], variant[3])
       IN  /\ a' = made.atom
           /\ atCall' = [NoAtCall EXCEPT !.op = "Atom", !.element = element,
                                         !.magmom = magmom, !.exc = made.exc]
    /\ UNCHANGED <<esVars, elCall, b, t>>

\* b = Atom(element, coords, lattice, displacement, magmom)
NewB(element, coords, lattice, displacement, magmom) ==
    /\ a # NoAtom /\ b = NoAtom
    /\ LET made == Atom_init("Atom", element, coords, lattice, displacement, magmom,
                             DefaultOccupancy, None)
       IN  /\ b' = made.atom
           /\ atCall' = [NoAtCall EXCEPT !.op = "Atom", !.element = element,
                                         !.magmom = magmom, !.exc = made.exc]
    /\ UNCHANGED <<esVars, elCall, a, t>>

\* t = a.transform(*matrices)
Transform(matrices) ==
    /\ a # NoAtom /\ t = NoAtom
    /\ LET call == Atom_transform(a, matrices)
       IN  /\ a' = call.self
           /\ t' = call.ret
           /\ atCall' = [NoAtCall EXCEPT !.op = "transform", !.recv = a,
                                         !.matrices = matrices]
    /\ UNCHANGED <<esVars, elCall, b>>

\* a == b, hash(a), hash(b)
Compare ==
    /\ a # NoAtom /\ b # NoAtom
    /\ atCall' = [NoAtCall EXCEPT !.op = "eq", !.eq = Atom_eq(a, b),
                                  !.hash_a = Atom_hash(a), !.hash_b = Atom_hash(b)]
    /\ UNCHANGED <<esVars, elCall, a, b, t>>

\* distance_fractional(a, b) and distance_fractional(b, a)
DistanceFractional ==
    /\ a # NoAtom /\ b # NoAtom
    /\ atCall' = [NoAtCall EXCEPT !.op = "distance_fractional",
                                  !.ab = distance_fractional(a, b),
                                  !.ba = distance_fractional(b, a)]
    /\ UNCHANGED <<esVars, elCall, a, b, t>>

\* distance_cartesian(a, b) and distance_cartesian(b, a)
DistanceCartesian ==
    /\ a # NoAtom /\ b # NoAtom
    /\ atCall' = [NoAtCall EXCEPT !.op = "distance_cartesian",
                                  !.ab = distance_cartesian(a, b),
                                  !.ba = distance_cartesian(b, a)]
    /\ UNCHANGED <<esVars, elCall, a, b, t>>

NextTransform ==
    \/ \E variant \in Variants, element \in AtomElementArgs, coords \in CoordSet,
          lattice \in LatticeArgs, displacement \in DisplacementArgs, magmom \in MagmomArgs :
          NewA(variant, element, coords, lattice, displacement, magmom)
    \/ \E matrices \in MatrixLists : Transform(matrices)

SpecTransform == InitAtom /\ [][NextTransform]_vars

PairLatticeArgs == {None, Some(Oblique)}

PairMagmomArgs == {None, Some(MaxMagmom)}

NextPair ==
    \/ \E element \in AtomElementArgs, coords \in CoordSet, lattice \in PairLatticeArgs,
          displacement \in DisplacementArgs, magmom \in PairMagmomArgs :
          NewA(<<"Atom", DefaultOccupancy, None>>, element, coords, lattice, displacement,
               magmom)
    \/ \E element \in AtomElementArgs, coords \in CoordSet, lattice \in PairLatticeArgs,
          displacement \in DisplacementArgs, magmom \in PairMagmomArgs :
          NewB(element, coords, lattice, displacement, magmom)
    \/ Compare
    \/ DistanceFractional
    \/ DistanceCartesian

SpecPair == InitAtom /\ [][NextPair]_vars

(***************************************************************************)
(* Claims about Element and the element arguments                          *)
(***************************************************************************)
\* first letter upper case, the rest lower case
Capitalized(str) == [i \in 1..Len(str) |-> IF i = 1 THEN ToUpper(str[i]) ELSE ToLower(str[i])]

ValidIdentity(arg) ==
    \/ arg.t = "str" /\ Capitalized(arg.s) \in valid_symbols
    \/ arg.t = "int" /\ arg.n \in 1..Len(chemical_symbols)

\* C8: Element(x), x a string or an integer, fails with ValueError for every
\* invalid identity (a string that is no symbol once capitalized, a number
\* outside 1..118), and for every valid one succeeds and stores the
\* capitalized symbol.
C8_InvalidElementIsValueError ==
    (elCall.op = "Element" /\ elCall.arg.t \in {"str", "int"})
    => IF ValidIdentity(elCall.arg)
       THEN /\ elCall.exc = "none"
            /\ elCall.element = IF elCall.arg.t = "int" THEN chemical_symbols[elCall.arg.n]
                                ELSE Capitalized(elCall.arg.s)
       ELSE elCall.exc = "ValueError"

\* C9: ground_state, Atom and is_element handed an Element give what they
\* give for its symbol, and do not fail.
C9_ElementInstanceIsAccepted ==
    (elCall.arg.t = "Element" /\ elCall.op \in {"ground_state", "Atom", "is_element"})
    => /\ elCall.exc = "none"
       /\ elCall.op = "ground_state" => elCall.items = ground_state(PyStr(elCall.arg.s)).self
       /\ elCall.op = "Atom" => elCall.number = ELEM_TO_NUM(elCall.arg.s)
       /\ elCall.op = "is_element"
            => elCall.result = is_element(PyStr(elCall.arg.s), elCall.atm).result

(***************************************************************************)
(* Claims about Atom and the distance functions                            *)
(***************************************************************************)
\* C4: atoms that compare equal hash equal.
C4_EqualAtomsHashEqual ==
    (atCall.op = "eq" /\ atCall.eq) => atCall.hash_a = atCall.hash_b

\* The image of v under the first n matrices applied one after another.
RECURSIVE ImageUnder(_, _, _)
ImageUnder(matrices, n, v) ==
    IF n = 0 THEN v ELSE affine_transform(matrices[n], ImageUnder(matrices, n - 1, v))

\* C6: a.transform(*matrices) leaves a as it was and returns an atom of a's
\* class with a's element, lattice, displacement, magnetic moment and
\* occupancy, the coordinates being a's taken through the matrices in
\* argument order, and no tag.
C6_TransformReturnsNewAtom ==
    atCall.op = "transform"
    => /\ a = atCall.recv
       /\ t.cls = a.cls
       /\ t.element = a.element
       /\ t.lattice = a.lattice
       /\ t.displacement = a.displacement
       /\ t.magmom = a.magmom
       /\ t.occupancy = a.occupancy
       /\ t.coords_fractional
            = ImageUnder(atCall.matrices, Len(atCall.matrices), a.coords_fractional)
       /\ t.tag = None

\* A tagged atom of a subclass, with a magnetic moment that is not the
\* ground-state one, taken through two matrices whose order matters.
C6_Witness ==
    /\ atCall.op = "transform"
    /\ atCall.matrices = <<RotZ, Translation>>
    /\ a.cls = "SubAtom" /\ a.tag # None
    /\ a.magmom # magnetic_moment_ground(a.element)
    /\ a.lattice = Oblique
    /\ t.coords_fractional # a.coords_fractional
    /\ t.coords_fractional # ImageUnder(<<Translation, RotZ>>, 2, a.coords_fractional)

Converts(steps) == \E i \in 1..Len(steps) : steps[i] \in {"convert", "subtract"}

\* C7: each distance function raises RuntimeError exactly when the lattices
\* of the two atoms differ, before converting or subtracting a coordinate;
\* on equal lattices it returns a value, the same in either argument order.
C7_DistanceNeedsEqualLattices ==
    atCall.op \in {"distance_fractional", "distance_cartesian"}
    => /\ (atCall.ab.exc = "RuntimeError") <=> (a.lattice.lattice_vectors # b.lattice.lattice_vectors)
       /\ atCall.ab.exc \in {"none", "RuntimeError"}
       /\ atCall.ab.exc = "RuntimeError" => ~Converts(atCall.ab.steps)
       /\ atCall.ba.exc = atCall.ab.exc
       /\ atCall.ab.exc = "none" => atCall.ab.value = atCall.ba.value

\* Atoms at different positions of different lattices: both orders raise.
C7_Witness ==
    /\ atCall.op = "distance_cartesian"
    /\ a.lattice = Oblique /\ b.lattice = Lattice(eye3)
    /\ a.coords_fractional # b.coords_fractional
    /\ atCall.ab.exc = "RuntimeError" /\ atCall.ba.exc = "RuntimeError"

\* C10: a magnetic moment handed to the constructor is the atom's, 0
\* included; only when None is handed is it the element's ground-state one.
C10_ExplicitMagmomIsKept ==
    (atCall.op = "Atom" /\ atCall.exc = "none")
    => a.magmom = IF atCall.magmom = None THEN magnetic_moment_ground(a.element)
                  ELSE atCall.magmom[1]

====
